---- MODULE Spec2Model ----
(***************************************************************************)
(* Step-workflow worker of the movie-script-generator agent: the step      *)
(* dispatcher (processSteps / run), the init handler that materializes the *)
(* step chain, the step handlers, and the scene-duration rebalancer        *)
(* (adjustSceneDurations).                                                 *)
(***************************************************************************)
EXTENDS Integers, Sequences, FiniteSets, TLC

\* ------------------------------------------------------------------------
\* Bounds of the model
\* ------------------------------------------------------------------------
MaxScenes == 3
MaxTarget == 35
MaxEvents == 3

\* ------------------------------------------------------------------------
\* State
\* ------------------------------------------------------------------------
VARIABLES
    \* the deployed dispatcher and the external orchestration store
    variant,         \* which dispatcher source is subscribed
    store,           \* step_id -> step record, as kept by the store
    nextId,          \* generateStepId: next fresh identifier
    delivered,       \* number of events delivered so far
    inv,             \* slot -> state of the callback invocation in that slot
    store0,          \* the store as it was when the worker subscribed (history)
    \* adjustSceneDurations (one call)
    scenes,          \* the list passed in, mutated in place
    targetDuration,  \* the second argument
    currentSum,      \* the local running sum
    pcAdj,           \* position in the function
    warnings,        \* console.warn messages emitted, in order
    scenesIn,        \* the list as it was at the call (history)
    nGrow,           \* number of 5 -> 10 conversions made (history)
    nShrink          \* number of 10 -> 5 conversions made (history)

dispVars == <<variant, store, nextId, delivered, inv, store0>>
adjVars == <<scenes, targetDuration, currentSum, pcAdj, warnings, scenesIn, nGrow, nShrink>>
vars == <<variant, store, nextId, delivered, inv, store0,
          scenes, targetDuration, currentSum, pcAdj, warnings, scenesIn, nGrow, nShrink>>

\* ------------------------------------------------------------------------
\* Duration Rebalancer: adjustSceneDurations(scenes, targetDuration)
\* ------------------------------------------------------------------------
ShortDuration == 5
LongDuration == 10
DurationStep == 5
Tolerance == 5

WarnNoFive == "No scenes with duration 5 remain to increase."
WarnNoTen == "No scenes with duration 10 remain to decrease."

RECURSIVE SumDurations(_)
SumDurations(s) ==
    IF s = <<>> THEN 0 ELSE Head(s).duration + SumDurations(Tail(s))

\* (mutant) the filter keeps every scene
CandidatesAny(s, d) == DOMAIN s
\* scenes.filter((scene) => scene.duration === d), as the positions kept
Candidates(s, d) == {i \in DOMAIN s : s[i].duration = d}

\* (mutant) the selected scene is replaced by a fresh object
SetDurationRenumber(s, i, d) == [s EXCEPT ![i] = [sceneNumber |-> 0, duration |-> d]]
\* (mutant) the assignment is lost
SetDurationLost(s, i, d) == s
\* (mutant) every entry of the list is the selected scene object
SetDurationAll(s, i, d) == [k \in DOMAIN s |-> [s[k] EXCEPT !.duration = d]]
\* (mutant) the value is added to the duration instead of assigned
SetDurationAdd(s, i, d) == [s EXCEPT ![i].duration = @ + d]
\* selectedScene.duration = d
SetDuration(s, i, d) == [s EXCEPT ![i].duration = d]

\* (mutant) the grow pass also runs when the sum equals the target
GrowCondInclusive(sum, target) == sum <= target
\* (mutant) the grow pass runs up to the top of the band
GrowCondUpToBand(sum, target) == sum < target + Tolerance
\* (mutant) the grow pass has a tolerance band of its own
GrowCondWithBand(sum, target) == sum < target - Tolerance
GrowCond(sum, target) == sum < target
\* (mutant) the shrink pass also runs when the sum is at the top of the band
ShrinkCondAtBand(sum, target) == sum >= target + Tolerance
\* (mutant) a shrink pass without the tolerance band
ShrinkCondNoBand(sum, target) == sum > target
\* (mutant) the shrink pass aims below the target
ShrinkCondBelowTarget(sum, target) == sum > target - Tolerance
ShrinkCond(sum, target) == sum > target + Tolerance

SceneLists ==
    UNION {[1..n -> {ShortDuration, LongDuration}] : n \in 0..MaxScenes}

MkScenes(durs) == [i \in DOMAIN durs |-> [sceneNumber |-> i, duration |-> durs[i]]]

\* production prompts as the transformation chain returns them: a scene
\* number, a duration and the names of the characters in the scene
MkPrompts(durs, names) ==
    [i \in DOMAIN durs |->
        [sceneNumber |-> i, duration |-> durs[i], charactersInScene |-> names]]

DispIdle ==
    /\ variant = "none"
    /\ store = <<>>
    /\ store0 = <<>>
    /\ nextId = 1
    /\ delivered = 0
    /\ inv = <<>>

AdjIdle ==
    /\ scenes = <<>>
    /\ targetDuration = 0
    /\ currentSum = 0
    /\ pcAdj = "idle"
    /\ warnings = <<>>
    /\ scenesIn = <<>>
    /\ nGrow = 0
    /\ nShrink = 0

\* longer calls: twelve scenes all at 10 with target 40, all at 5 with target
\* 110, and eight at 5 followed by four at 10 with target 60
LongCalls ==
    {<<[i \in 1..12 |-> LongDuration], 40>>,
     <<[i \in 1..12 |-> ShortDuration], 110>>,
     <<[i \in 1..12 |-> IF i <= 8 THEN ShortDuration ELSE LongDuration], 60>>}

InitAdj ==
    /\ DispIdle
    /\ \/ /\ \E durs \in SceneLists : scenes = MkScenes(durs)
          /\ targetDuration \in 0..MaxTarget
       \/ \E c \in LongCalls : scenes = MkScenes(c[1]) /\ targetDuration = c[2]
    /\ currentSum = 0
    /\ pcAdj = "reduce"
    /\ warnings = <<>>
    /\ scenesIn = scenes
    /\ nGrow = 0
    /\ nShrink = 0

\* let currentSum = scenes.reduce(...)
AdjReduce ==
    /\ pcAdj = "reduce"
    /\ currentSum' = SumDurations(scenes)
    /\ pcAdj' = "grow"
    /\ UNCHANGED <<scenes, targetDuration, warnings, scenesIn, nGrow, nShrink>>
    /\ UNCHANGED dispVars

\* one iteration of the first while loop that converts a scene
GrowStep ==
    /\ pcAdj = "grow"
    /\ GrowCond(currentSum, targetDuration)
    /\ \E i \in Candidates(scenes, ShortDuration) :
         scenes' = SetDuration(scenes, i, LongDuration)
    /\ currentSum' = currentSum + DurationStep
    /\ nGrow' = nGrow + 1
    /\ UNCHANGED <<targetDuration, pcAdj, warnings, scenesIn, nShrink>>
    /\ UNCHANGED dispVars

\* candidates.length === 0: warn and break
GrowExhausted ==
    /\ pcAdj = "grow"
    /\ GrowCond(currentSum, targetDuration)
    /\ Candidates(scenes, ShortDuration) = {}
    /\ warnings' = Append(warnings, WarnNoFive)
    /\ pcAdj' = "shrink"
    /\ UNCHANGED <<scenes, targetDuration, currentSum, scenesIn, nGrow, nShrink>>
    /\ UNCHANGED dispVars

\* the first loop's condition is false
GrowExit ==
    /\ pcAdj = "grow"
    /\ ~GrowCond(currentSum, targetDuration)
    /\ pcAdj' = "shrink"
    /\ UNCHANGED <<scenes, targetDuration, currentSum, warnings, scenesIn, nGrow, nShrink>>
    /\ UNCHANGED dispVars

ShrinkStep ==
    /\ pcAdj = "shrink"
    /\ ShrinkCond(currentSum, targetDuration)
    /\ \E i \in Candidates(scenes, LongDuration) :
         scenes' = SetDuration(scenes, i, ShortDuration)
    /\ currentSum' = currentSum - DurationStep
    /\ nShrink' = nShrink + 1
    /\ UNCHANGED <<targetDuration, pcAdj, warnings, scenesIn, nGrow>>
    /\ UNCHANGED dispVars

ShrinkExhausted ==
    /\ pcAdj = "shrink"
    /\ ShrinkCond(currentSum, targetDuration)
    /\ Candidates(scenes, LongDuration) = {}
    /\ warnings' = Append(warnings, WarnNoTen)
    /\ pcAdj' = "returned"
    /\ UNCHANGED <<scenes, targetDuration, currentSum, scenesIn, nGrow, nShrink>>
    /\ UNCHANGED dispVars

\* the second loop's condition is false: return scenes
ShrinkExit ==
    /\ pcAdj = "shrink"
    /\ ~ShrinkCond(currentSum, targetDuration)
    /\ pcAdj' = "returned"
    /\ UNCHANGED <<scenes, targetDuration, currentSum, warnings, scenesIn, nGrow, nShrink>>
    /\ UNCHANGED dispVars

NextAdj ==
    \/ AdjReduce
    \/ GrowStep
    \/ GrowExhausted
    \/ GrowExit
    \/ ShrinkStep
    \/ ShrinkExhausted
    \/ ShrinkExit

SpecAdj == InitAdj /\ [][NextAdj]_vars

\* the function runs synchronously: the call that has started keeps stepping
SpecAdjFair == InitAdj /\ [][NextAdj]_vars /\ WF_vars(NextAdj)

\* ------------------------------------------------------------------------
\* JSON values and artifact texts
\* ------------------------------------------------------------------------
Undefined == [t |-> "undefined"]
Str(x) == [t |-> "str", s |-> x]
Num(n) == [t |-> "num", n |-> n]
Obj(f) == [t |-> "obj", f |-> f]
Arr(e) == [t |-> "arr", e |-> e]
\* a list of scene objects (the value adjustSceneDurations works on)
SceneArr(sc) == [t |-> "scenes", e |-> sc]

\* a value JSON.stringify throws on (a cyclic structure)
Cyclic == [t |-> "cyclic"]
\* (mutant) JSON.stringify accepts every value
SerializableAlways(v) == TRUE
\* JSON.stringify(v) returns
Serializable(v) == v.t # "cyclic"

\* obj.k : a property read; undefined when the property is absent
Get(v, k) ==
    IF v.t = "obj" /\ k \in DOMAIN v.f THEN v.f[k] ELSE Undefined

\* !v is false
Truthy(v) ==
    /\ v.t # "undefined"
    /\ v # Str("")
    /\ v # Num(0)

\* a step's input_artifacts as the store hands it over: absent, a string that
\* is not JSON, or the JSON text of a value
TextUndefined == [kind |-> "undefined"]
TextInvalid == [kind |-> "invalid"]
TextOf(v) == [kind |-> "json", val |-> v]

\* JSON.stringify drops object properties whose value is undefined
DropUndefined(v) ==
    IF v.t = "obj"
    THEN Obj([k \in {x \in DOMAIN v.f : v.f[x].t # "undefined"} |-> v.f[k]])
    ELSE v

JSONstringify(v) ==
    IF v.t = "arr"
    THEN TextOf(Arr([i \in DOMAIN v.e |-> DropUndefined(v.e[i])]))
    ELSE TextOf(DropUndefined(v))

\* JSON.parse(text): throws on undefined and on text that is not JSON
JSONparse(text) ==
    IF text.kind = "json" THEN [ok |-> TRUE, val |-> text.val]
                          ELSE [ok |-> FALSE, val |-> Undefined]

\* const [{ ... }] = value : throws when the value is not iterable or its
\* first element is undefined; otherwise binds the names from the element
DestructureFirst(v) ==
    IF v.t = "arr" /\ Len(v.e) > 0 /\ v.e[1].t # "undefined"
    THEN [ok |-> TRUE, val |-> v.e[1]]
    ELSE [ok |-> FALSE, val |-> Undefined]

\* ------------------------------------------------------------------------
\* Steps and the orchestration store
\* ------------------------------------------------------------------------
Pending == "Pending"
Completed == "Completed"
Failed == "Failed"

NoStepId == 0
InitStepId == 1
ForeignStepId == 2

Slots == {"a", "b"}

\* the dispatcher sources
DurationWorkflow == "processSteps:part_001"
SettingsWorkflow == "processSteps:stepHandlers.ts"
SingleStep == "run:main.ts"
Variants == {DurationWorkflow, SettingsWorkflow, SingleStep}

RecognizedNames(v) ==
    IF v \in {DurationWorkflow, SettingsWorkflow}
    THEN {"init", "generateScript", "extractScenes", "generateSettings",
          "extractCharacters", "transformScenes"}
    ELSE {}

\* the record the store keeps for a step submitted through createSteps
StoredStep(s) ==
    [step_id |-> s.step_id, task_id |-> s.task_id, name |-> s.name,
     predecessor |-> s.predecessor, is_last |-> s.is_last,
     step_status |-> Pending, input_query |-> Undefined,
     input_params |-> TextUndefined, input_artifacts |-> TextUndefined,
     output |-> Undefined, output_artifacts |-> Undefined]

SongMetadata ==
    [title |-> Str("title"), tags |-> Str("tags"), lyrics |-> Str("lyrics"),
     idea |-> Str("idea"), duration |-> Num(15)]

MetadataNoLyrics ==
    [title |-> Str("title"), tags |-> Str("tags"),
     idea |-> Str("idea"), duration |-> Num(15)]

\* what the init step of a new task can carry as input_artifacts
InitArtifacts ==
    {TextUndefined, TextInvalid,
     TextOf(Obj(SongMetadata)),
     TextOf(Arr(<<Obj(SongMetadata)>>)),
     TextOf(Obj(MetadataNoLyrics))}

FirstStep(arts, params) ==
    [step_id |-> InitStepId, task_id |-> "task-1", name |-> "init",
     predecessor |-> NoStepId, is_last |-> FALSE,
     step_status |-> Pending, input_query |-> Str("idea"),
     input_params |-> params, input_artifacts |-> arts,
     output |-> Undefined, output_artifacts |-> Undefined]

\* a step owned by another worker
ForeignStep ==
    [StoredStep([step_id |-> ForeignStepId, task_id |-> "task-2",
                 name |-> "transformCharacters", predecessor |-> NoStepId,
                 is_last |-> TRUE])
     EXCEPT !.input_query = Str("idea")]

NoStep == [step_id |-> NoStepId]

IdleInvocation ==
    [pc |-> "idle", data |-> NoStepId, step |-> NoStep, art |-> Undefined,
     upd |-> NoStep, region |-> "none", newSteps |-> <<>>,
     createStatus |-> "none", genOutcome |-> "none",
     nCreate |-> 0, nGen |-> 0, nUpdate |-> 0,
     fetched |-> NoStep, writes |-> <<>>, logs |-> <<>>,
     genValue |-> Undefined, err |-> "", ready |-> FALSE,
     genArgs |-> <<>>]

\* ------------------------------------------------------------------------
\* adjustSceneDurations as the handler sees it: every list a call can return
\* ------------------------------------------------------------------------
RECURSIVE GrowAll(_, _, _)
GrowAll(s, sum, target) ==
    IF GrowCond(sum, target) /\ Candidates(s, ShortDuration) # {}
    THEN UNION {GrowAll(SetDuration(s, i, LongDuration), sum + DurationStep, target) :
                  i \in Candidates(s, ShortDuration)}
    ELSE {<<s, sum>>}

RECURSIVE ShrinkAll(_, _, _)
ShrinkAll(s, sum, target) ==
    IF ShrinkCond(sum, target) /\ Candidates(s, LongDuration) # {}
    THEN UNION {ShrinkAll(SetDuration(s, i, ShortDuration), sum - DurationStep, target) :
                  i \in Candidates(s, LongDuration)}
    ELSE {s}

\* the same two loops with the warnings they emit: every <<list, warnings>> a
\* call can end with, over all the picks Math.random can make
RECURSIVE GrowOutcomes(_, _, _)
GrowOutcomes(s, sum, target) ==
    IF GrowCond(sum, target)
    THEN IF Candidates(s, ShortDuration) = {}
         THEN {<<s, sum, <<WarnNoFive>>>>}
         ELSE UNION {GrowOutcomes(SetDuration(s, i, LongDuration), sum + DurationStep, target) :
                       i \in Candidates(s, ShortDuration)}
    ELSE {<<s, sum, <<>>>>}

RECURSIVE ShrinkOutcomes(_, _, _, _)
ShrinkOutcomes(s, sum, target, w) ==
    IF ShrinkCond(sum, target)
    THEN IF Candidates(s, LongDuration) = {}
         THEN {<<s, Append(w, WarnNoTen)>>}
         ELSE UNION {ShrinkOutcomes(SetDuration(s, i, ShortDuration), sum - DurationStep,
                                    target, w) :
                       i \in Candidates(s, LongDuration)}
    ELSE {<<s, w>>}

AdjustOutcomes(s, target) ==
    UNION {ShrinkOutcomes(g[1], g[2], target, g[3]) :
             g \in GrowOutcomes(s, SumDurations(s), target)}

\* (mutant) the rebalancer returns the list without its last scene
AdjustResultsDropLast(s, duration) == {SubSeq(s, 1, Len(s) - 1)}
\* targetDuration undefined: both comparisons are false and nothing changes
AdjustResults(s, duration) ==
    IF duration.t = "num"
    THEN UNION {ShrinkAll(g[1], g[2], duration.n) :
                  g \in GrowAll(s, SumDurations(s), duration.n)}
    ELSE {s}

\* ------------------------------------------------------------------------
\* The handlers
\* ------------------------------------------------------------------------
PipelineNames ==
    <<"generateScript", "extractScenes", "generateSettings",
      "extractCharacters", "transformScenes">>

\* (mutant) every created step hangs off the init step
PredecessorAllInit(step, n, k) == step.step_id
\* predecessor of the k-th created step, whose ids are n, n+1, ...
PredecessorOf(step, n, k) == IF k = 1 THEN step.step_id ELSE n + k - 2

\* (mutant) the steps array without its last entry
InitChainShort(step, n) ==
    [k \in 1..(Len(PipelineNames) - 1) |->
        [step_id |-> n + k - 1,
         task_id |-> step.task_id,
         predecessor |-> PredecessorOf(step, n, k),
         name |-> PipelineNames[k],
         is_last |-> FALSE]]

\* the steps array built by handleInitStep; n is the first generated id
InitChain(step, n) ==
    [k \in 1..Len(PipelineNames) |->
        [step_id |-> n + k - 1,
         task_id |-> step.task_id,
         predecessor |-> PredecessorOf(step, n, k),
         name |-> PipelineNames[k],
         is_last |-> (k = Len(PipelineNames))]]

FailedOutput(name) ==
    CASE name = "generateScript" -> Str("Failed to generate script.")
      [] name = "extractScenes" -> Str("Failed to extract scenes.")
      [] name = "generateSettings" -> Str("Failed to generate settings.")
      [] name = "extractCharacters" -> Str("Failed to extract characters.")
      [] name = "transformScenes" -> Str("Failed to transform scenes.")

CompletedOutput(step) ==
    CASE step.name = "generateScript" -> Str("Script generation completed.")
      [] step.name = "extractScenes" -> Str("Scenes extraction completed.")
      [] step.name = "generateSettings" -> Str("Settings generation completed.")
      [] step.name = "extractCharacters" -> Str("Characters extraction completed.")
      [] step.name = "transformScenes" -> step.input_query

\* what the Content Generator can return for a step
GenResults(name) ==
    CASE name = "generateScript" -> {Str("script")}
      [] name = "extractScenes" ->
            {Arr(<<Obj([sceneNumber |-> Num(1)]), Obj([sceneNumber |-> Num(2)])>>)}
      [] name = "generateSettings" -> {Str("settings")}
      [] name = "extractCharacters" -> {Arr(<<Obj([name |-> Str("Lead Singer")])>>)}
      [] name = "transformScenes" ->
            {SceneArr(MkPrompts(<<ShortDuration, ShortDuration>>, <<"Lead Singer">>)),
             SceneArr(MkPrompts(<<ShortDuration>>, <<"Lead Singer", "Stranger">>)),
             Obj([error |-> Str("no prompts")]),
             Cyclic}
      [] OTHER -> {Str("script")}

\* (mutant) no handler forwards the duration
ForwardedKeysNoDuration(v, name) ==
    CASE name = "generateScript" -> {"lyrics", "tags"}
      [] name = "extractScenes" -> {"script", "lyrics", "tags"}
      [] name = "generateSettings" -> {"script", "scenes", "lyrics", "tags"}
      [] name = "extractCharacters" -> {"script", "settings", "scenes"}
      [] name = "transformScenes" -> {"settings", "characters", "script", "scenes"}
\* the names a handler forwards from its input artifact
ForwardedKeys(v, name) ==
    LET keys ==
          CASE name = "generateScript" -> {"lyrics", "tags", "duration"}
            [] name = "extractScenes" -> {"script", "lyrics", "tags", "duration"}
            [] name = "generateSettings" -> {"script", "scenes", "lyrics", "tags", "duration"}
            [] name = "extractCharacters" -> {"script", "settings", "scenes", "duration"}
            [] name = "transformScenes" -> {"settings", "characters", "script", "scenes"}
    IN IF v = SettingsWorkflow THEN keys \ {"duration"} ELSE keys

ProducedKey(name) ==
    CASE name = "generateScript" -> "script"
      [] name = "extractScenes" -> "scenes"
      [] name = "generateSettings" -> "settings"
      [] name = "extractCharacters" -> "characters"
      [] name = "transformScenes" -> "transformedScenes"

\* (mutant) the handler emits what it produced and forwards nothing
CompletedArtifactsProducedOnly(v, name, art, value) ==
    Arr(<<Obj(ProducedKey(name) :> value)>>)
\* output_artifacts: [{ <forwarded names>, <produced name>: value }]
CompletedArtifacts(v, name, art, value) ==
    Arr(<<Obj((ProducedKey(name) :> value) @@
              [k \in ForwardedKeys(v, name) |-> Get(art, k)])>>)

\* (mutant) the Failed record also resets the artifacts
FailedStepResetArtifacts(step) ==
    [step EXCEPT !.step_status = Failed, !.output = FailedOutput(step.name),
                 !.input_artifacts = TextUndefined, !.output_artifacts = Arr(<<>>)]
\* { ...step, step_status: Failed, output: "Failed to ..." }
FailedStep(step) ==
    [step EXCEPT !.step_status = Failed, !.output = FailedOutput(step.name)]

\* { ...step, step_status: Completed, output, output_artifacts }
CompletedStep(v, step, art, value) ==
    [step EXCEPT !.step_status = Completed,
                 !.output = CompletedOutput(step),
                 !.output_artifacts = CompletedArtifacts(v, step.name, art, value)]

\* (mutant) init emits the parsed value itself, not wrapped in an array
InitCompletedStepUnwrapped(step, parsed) ==
    [step EXCEPT !.step_status = Completed,
                 !.output = step.input_query,
                 !.output_artifacts = parsed]
\* handleInitStep's update: { ...step, Completed, output: input_query,
\* output_artifacts: [JSON.parse(step.input_artifacts)] }
InitCompletedStep(step, parsed) ==
    [step EXCEPT !.step_status = Completed,
                 !.output = step.input_query,
                 !.output_artifacts = Arr(<<parsed>>)]

\* run's update: { ...step, Completed, is_last: true, output: script }
RunCompletedStep(step, script) ==
    [step EXCEPT !.step_status = Completed, !.is_last = TRUE, !.output = script]

LogEntry(level, what, status) == [level |-> level, what |-> what, task_status |-> status]

\* (mutant) the update is issued only if the stored record is still the one
\* that was fetched
IssueUpdateIfUnchanged(r, u, region) ==
    IF store[r.fetched.step_id] = r.fetched
    THEN [r EXCEPT !.pc = "updateStep", !.upd = u, !.region = region,
                   !.nUpdate = @ + 1]
    ELSE [r EXCEPT !.pc = "returned"]
\* the callback issues payments.query.updateStep(step.did, u) and awaits it
IssueUpdate(r, u, region) ==
    [r EXCEPT !.pc = "updateStep", !.upd = u, !.region = region,
              !.nUpdate = @ + 1]

\* the messages a rejected remote call can carry
ErrorMessages == {"timeout", "rate limit"}
ParseError == "invalid input artifacts"
TypeError == "TypeError"

\* the exception e is thrown in the invocation
WithError(r, e) == [r EXCEPT !.err = e]

\* (mutant) the catch block persists the error message as the step's output
CatchWithDetail(r) ==
    IssueUpdate([r EXCEPT !.logs = Append(@, LogEntry("error", r.err, "none"))],
                [FailedStep(r.step) EXCEPT !.output = Str(r.err)], "catch")
\* control enters a handler's catch block: logger.error(error.message), then
\* the update to Failed
Catch(r) ==
    IssueUpdate([r EXCEPT !.logs = Append(@, LogEntry("error", r.err, "none"))],
                FailedStep(r.step), "catch")

Threw(r) == [r EXCEPT !.pc = "threw"]
Returned(r, entry) == [r EXCEPT !.pc = "returned", !.logs = Append(@, entry)]

\* the error that leaves the dispatcher's own code (JSON.parse of the event,
\* getStep): processSteps has no try around it, run catches and logs it
DispatcherError(v, r) ==
    IF v = SingleStep
    THEN Returned(r, LogEntry("error", "Error processing steps", "none"))
    ELSE Threw(r)

\* artifacts[0] of the parsed value
Index0(v) == IF v.t = "arr" /\ Len(v.e) > 0 THEN v.e[1] ELSE Undefined

RequiredMetadata == {"title", "tags", "lyrics", "idea", "duration"}

\* the arguments of the handler's Content Generator call, by parameter name
GeneratorArgs(v, step, art) ==
    CASE step.name = "generateScript" ->
            IF v = DurationWorkflow
            THEN [k \in RequiredMetadata |-> Get(art, k)]
            ELSE ("songData" :> art)
      [] step.name = "extractScenes" ->
            IF v = DurationWorkflow
            THEN ("script" :> Get(art, "script")) @@ ("duration" :> Get(art, "duration"))
            ELSE ("script" :> Get(art, "script"))
      [] step.name = "generateSettings" -> ("script" :> Get(art, "script"))
      [] step.name = "extractCharacters" ->
            ("script" :> step.input_query) @@ ("lyrics" :> Get(art, "lyrics"))
               @@ ("tags" :> Get(art, "tags"))
      [] step.name = "transformScenes" ->
            [k \in {"scenes", "characters", "settings", "script"} |-> Get(art, k)]
      [] OTHER -> <<>>

\* the synchronous start of a content handler, up to its first await
StartHandlerNoValidation(v, r) ==
    LET p == JSONparse(r.step.input_artifacts)
        d == DestructureFirst(p.val)
    IN IF p.ok /\ d.ok
       THEN [r EXCEPT !.pc = "generate", !.art = d.val, !.region = "try",
                      !.nGen = @ + 1,
                      !.genArgs = GeneratorArgs(v, r.step, d.val)]
       ELSE Catch(WithError(r, ParseError))

StartHandler(v, r) ==
    IF v = SettingsWorkflow /\ r.step.name = "generateScript"
    THEN LET text == IF r.step.input_artifacts.kind = "undefined"
                     THEN TextOf(Arr(<<>>)) ELSE r.step.input_artifacts
             p == JSONparse(text)
             a0 == Index0(p.val)
         IN IF p.ok /\ a0.t # "undefined"
               /\ \A k \in RequiredMetadata : Truthy(Get(a0, k))
            THEN [r EXCEPT !.pc = "generate", !.art = a0, !.region = "none",
                           !.nGen = @ + 1,
                           !.genArgs = GeneratorArgs(v, r.step, a0)]
            ELSE Catch(WithError(r, ParseError))
    ELSE StartHandlerNoValidation(v, r)

\* (mutant) the init step is marked Completed before createSteps is called
StartInitUpdateFirst(r, n) ==
    LET p == JSONparse(r.step.input_artifacts)
    IN IF p.ok
       THEN IssueUpdate([r EXCEPT !.newSteps = InitChain(r.step, n)],
                        InitCompletedStep(r.step, p.val), "none")
       ELSE Threw(r)
\* handleInitStep up to its await of createSteps
StartInit(r, n) ==
    [r EXCEPT !.pc = "createSteps", !.newSteps = InitChain(r.step, n),
              !.region = "none", !.nCreate = @ + 1]

\* the switch of processSteps
\* (mutant) the default branch fails the step instead of skipping it
ProcessStepsDispatchFailUnknown(v, r, n) ==
    IF r.step.name = "init" THEN StartInit(r, n)
    ELSE IF r.step.name \in RecognizedNames(v) THEN StartHandler(v, r)
    ELSE IssueUpdate(r, [r.step EXCEPT !.step_status = Failed,
                                       !.output = Str("Unrecognized step name")], "none")
ProcessStepsDispatch(v, r, n) ==
    LET r1 == [r EXCEPT !.logs = Append(@, LogEntry("info", "Processing step", "none"))]
    IN CASE r.step.name = "init" -> StartInit(r1, n)
         [] r.step.name \in RecognizedNames(v) \ {"init"} -> StartHandler(v, r1)
         [] OTHER -> Returned(r1, LogEntry("warn", "Unrecognized step name", "none"))

\* run after getStep: the Pending check, the start log, the input parse and
\* the call of generateScript
RunPending(r) ==
    LET r1 == [r EXCEPT !.logs = Append(@, LogEntry("info", "Starting script generation", "none"))]
        text == IF r.step.input_params.kind = "undefined"
                THEN TextOf(Obj(<<>>)) ELSE r.step.input_params
    IN IF JSONparse(text).ok
       THEN [r1 EXCEPT !.pc = "generate", !.region = "inner", !.nGen = @ + 1]
       ELSE Returned(r1, LogEntry("error", "Error processing steps", "none"))
RunDispatch(r) ==
    IF r.step.step_status # Pending
    THEN Returned(r, LogEntry("warn", "not pending", "none"))
    ELSE RunPending(r)

\* ------------------------------------------------------------------------
\* The orchestration store
\* ------------------------------------------------------------------------
\* createSteps answered 201: the submitted steps exist, Pending
StoreCreate(st, steps) ==
    st @@ [id \in {steps[k].step_id : k \in DOMAIN steps} |->
             StoredStep(CHOOSE s \in {steps[k] : k \in DOMAIN steps} : s.step_id = id)]

\* the store hands a Completed step's output to the steps that name it as
\* predecessor: input_artifacts is the JSON text of its output_artifacts
HandOver(st, u) ==
    IF u.step_status = Completed /\ u.output_artifacts # Undefined
    THEN [id \in DOMAIN st |->
            IF st[id].predecessor = u.step_id /\ st[id].step_status = Pending
            THEN [st[id] EXCEPT !.input_artifacts = JSONstringify(u.output_artifacts),
                                !.input_query = u.output]
            ELSE st[id]]
    ELSE st

\* updateStep answered 201: the record sent replaces the stored one
StoreUpdate(st, u) == HandOver([st EXCEPT ![u.step_id] = u], u)

\* the store a worker finds when it subscribes: a new task (stage 0), or a
\* task whose first k steps have already been completed by this workflow
FirstGenerated == ForeignStepId + 1

RECURSIVE StoreAtStage(_, _, _)
StoreAtStage(v, arts, k) ==
    IF k = 0
    THEN (InitStepId :> FirstStep(arts, TextUndefined)) @@ (ForeignStepId :> ForeignStep)
    ELSE LET st == StoreAtStage(v, arts, k - 1) IN
         IF k = 1
         THEN StoreUpdate(StoreCreate(st, InitChain(st[InitStepId], FirstGenerated)),
                          InitCompletedStep(st[InitStepId], JSONparse(arts).val))
         ELSE LET step == st[FirstGenerated + k - 2]
                  art == DestructureFirst(JSONparse(step.input_artifacts).val).val
                  value == CHOOSE x \in GenResults(step.name) : TRUE
              IN StoreUpdate(st, CompletedStep(v, step, art, value))

\* the song metadata a task of the workflow can have got past its first steps with
StagedMetadata(v) ==
    IF v = DurationWorkflow THEN {SongMetadata, MetadataNoLyrics} ELSE {SongMetadata}

Init ==
    /\ AdjIdle
    /\ variant \in Variants
    /\ \/ /\ variant = SingleStep
          /\ \E params \in {TextUndefined, TextInvalid} :
               store = (InitStepId :> FirstStep(TextUndefined, params))
                       @@ (ForeignStepId :> ForeignStep)
          /\ nextId = FirstGenerated
       \/ /\ variant # SingleStep
          /\ \E arts \in InitArtifacts : store = StoreAtStage(variant, arts, 0)
          /\ nextId = FirstGenerated
       \/ /\ variant # SingleStep
          /\ \E k \in 1..Len(PipelineNames), md \in StagedMetadata(variant) :
               store = StoreAtStage(variant, TextOf(Obj(md)), k)
          /\ nextId = FirstGenerated + Len(PipelineNames)
    /\ delivered = 0
    /\ inv = [i \in Slots |-> IdleInvocation]
    /\ store0 = store

\* ------------------------------------------------------------------------
\* The dispatcher callback, one action per resumption
\* ------------------------------------------------------------------------
Ended(r) == r.pc \in {"returned", "threw"}

EventPayloads ==
    {[valid |-> FALSE, step_id |-> NoStepId]} \cup
    {[valid |-> TRUE, step_id |-> n] : n \in DOMAIN store \cup {NoStepId}}

\* the subscription hands an event to the callback: JSON.parse(data), then
\* the call of getStep
Handle(i, d) ==
    /\ inv[i].pc = "idle" \/ Ended(inv[i])
    /\ delivered' = delivered + 1
    /\ LET r == [IdleInvocation EXCEPT !.data = d.step_id]
       IN inv' = [inv EXCEPT ![i] =
                    IF d.valid THEN [r EXCEPT !.pc = "getStep"]
                               ELSE DispatcherError(variant, r)]
    /\ UNCHANGED <<store0, variant, store, nextId>>
    /\ UNCHANGED adjVars

\* at most MaxEvents events reach the worker
Deliver(i, d) ==
    /\ delivered < MaxEvents
    /\ Handle(i, d)

\* the orchestrator's rule for delivering a step's event: the step has no
\* predecessor or its predecessor is stored Completed
Ready(st, step) ==
    \/ step.predecessor = NoStepId
    \/ /\ step.predecessor \in DOMAIN st
       /\ st[step.predecessor].step_status = Completed

\* getStep settles; the callback runs up to its next await
GetStepSettle(i) ==
    /\ inv[i].pc = "getStep"
    /\ IF inv[i].data \notin DOMAIN store
       THEN /\ inv' = [inv EXCEPT ![i] = DispatcherError(variant, @)]
            /\ nextId' = nextId
       ELSE LET step == store[inv[i].data]
                r == [inv[i] EXCEPT !.step = step, !.fetched = step,
                                    !.ready = Ready(store, step)]
                r2 == IF variant = SingleStep
                      THEN RunDispatch(r)
                      ELSE ProcessStepsDispatch(variant, r, nextId)
            IN /\ inv' = [inv EXCEPT ![i] = r2]
               /\ nextId' = IF r2.pc = "createSteps"
                            THEN nextId + Len(PipelineNames) ELSE nextId
    /\ UNCHANGED <<store0, variant, store, delivered>>
    /\ UNCHANGED adjVars

CreateOutcomes == {"201", "500", "throw"}

\* what handleInitStep does once createSteps has answered
AfterCreate(r, status) ==
    LET r1 == [r EXCEPT !.createStatus = status,
                        !.logs = Append(@, LogEntry(IF status = "201" THEN "info" ELSE "error",
                                                    "createSteps", "none"))]
        p == JSONparse(r.step.input_artifacts)
    IN IF p.ok
       THEN IssueUpdate(r1, InitCompletedStep(r.step, p.val), "none")
       ELSE Threw(r1)

\* createSteps settles
CreateStepsSettle(i, outcome) ==
    /\ inv[i].pc = "createSteps"
    /\ store' = IF outcome = "201" THEN StoreCreate(store, inv[i].newSteps) ELSE store
    /\ inv' = [inv EXCEPT ![i] =
                 IF outcome = "throw"
                 THEN Threw([@ EXCEPT !.createStatus = "throw"])
                 ELSE AfterCreate(@, outcome)]
    /\ UNCHANGED <<store0, variant, nextId, delivered>>
    /\ UNCHANGED adjVars

\* the handler's code after a successful content generation call
AfterGenerate(v, r, value, adjusted) ==
    IF v = SingleStep
    THEN IssueUpdate(r, RunCompletedStep(r.step, value), r.region)
    ELSE IF r.step.name = "transformScenes" /\ ~Serializable(value)
         THEN Catch(WithError(r, TypeError))
    ELSE IF v = DurationWorkflow /\ r.step.name = "transformScenes"
         THEN IF value.t = "scenes"
              THEN IssueUpdate(r, CompletedStep(v, r.step, r.art, SceneArr(adjusted)), r.region)
              ELSE Catch(WithError(r, TypeError))
         ELSE IssueUpdate(r, CompletedStep(v, r.step, r.art, value), r.region)

\* an exception raised at an awaited call, by the region the await is in
Raise(r) ==
    CASE r.region = "try" -> Catch(r)
      [] r.region = "inner" ->
            Returned(r, LogEntry("error", r.err, Failed))
      [] OTHER -> Threw(r)

\* the Content Generator call settles
GenerateSettle(i, ok) ==
    /\ inv[i].pc = "generate"
    /\ LET r == [inv[i] EXCEPT !.genOutcome = IF ok THEN "ok" ELSE "throw"]
       IN IF ok
          THEN \E value \in GenResults(r.step.name) :
                 \E adjusted \in (IF value.t = "scenes"
                                  THEN AdjustResults(value.e, Get(r.art, "duration"))
                                  ELSE {<<>>}) :
                   inv' = [inv EXCEPT ![i] =
                            AfterGenerate(variant, [r EXCEPT !.genValue = value],
                                          value, adjusted)]
          ELSE \E e \in ErrorMessages :
                 inv' = [inv EXCEPT ![i] = Raise(WithError(r, e))]
    /\ UNCHANGED <<store0, variant, store, nextId, delivered>>
    /\ UNCHANGED adjVars

UpdateOutcomes == {"201", "500", "throw"}

\* the logMessage calls a processSteps handler makes after its updateStep
HandlerLog(name, status) ==
    IF status = Completed
    THEN CASE name \in {"generateScript", "extractScenes", "extractCharacters"} ->
                <<LogEntry("info", "completed", "none")>>
           [] name = "transformScenes" -> <<LogEntry("info", "completed", Completed)>>
           [] OTHER -> <<>>
    ELSE IF name = "extractScenes"
         THEN <<LogEntry("info", "completed", Failed)>>
         ELSE <<>>

\* the handler's code after updateStep has answered
AfterUpdate(v, r, status) ==
    IF v = SingleStep
    THEN IF status = "201"
         THEN Returned(r, LogEntry("info", "Script generation completed.", Completed))
         ELSE Returned(r, LogEntry("error", "Error updating step", Failed))
    ELSE [r EXCEPT !.pc = "returned",
                   !.logs = @ \o HandlerLog(r.step.name, r.upd.step_status)]

\* updateStep settles: the store replaces the record when it answers 201
UpdateSettle(i, outcome) ==
    /\ inv[i].pc = "updateStep"
    /\ store' = IF outcome = "201" THEN StoreUpdate(store, inv[i].upd) ELSE store
    /\ LET r == IF outcome = "201"
                THEN [inv[i] EXCEPT !.writes = Append(@, inv[i].upd.step_status)]
                ELSE inv[i]
       IN IF outcome = "throw"
          THEN \E e \in ErrorMessages : inv' = [inv EXCEPT ![i] = Raise(WithError(r, e))]
          ELSE inv' = [inv EXCEPT ![i] = AfterUpdate(variant, r, outcome)]
    /\ UNCHANGED <<store0, variant, nextId, delivered>>
    /\ UNCHANGED adjVars

\* events are handled one at a time
Next ==
    \/ \E d \in EventPayloads : Deliver("a", d)
    \/ GetStepSettle("a")
    \/ \E o \in CreateOutcomes : CreateStepsSettle("a", o)
    \/ \E ok \in BOOLEAN : GenerateSettle("a", ok)
    \/ \E o \in UpdateOutcomes : UpdateSettle("a", o)

Spec == Init /\ [][Next]_vars

\* two events handled concurrently: the subscription calls the async callback
\* for the second event while the first invocation is suspended at an await;
\* each slot handles one event
DeliverOnce(i, d) ==
    /\ inv[i].pc = "idle"
    /\ Deliver(i, d)

NextConc ==
    \E i \in Slots :
        \/ \E d \in EventPayloads : DeliverOnce(i, d)
        \/ GetStepSettle(i)
        \/ \E o \in CreateOutcomes : CreateStepsSettle(i, o)
        \/ \E ok \in BOOLEAN : GenerateSettle(i, ok)
        \/ \E o \in UpdateOutcomes : UpdateSettle(i, o)

SpecConc == Init /\ [][NextConc]_vars

\* events handled one at a time by a worker whose orchestrator sends a
\* step's event only once the step's predecessor is Completed
DeliverReady(i, d) ==
    /\ (d.valid /\ d.step_id \in DOMAIN store) => Ready(store, store[d.step_id])
    /\ Deliver(i, d)

NextOrch ==
    \/ \E d \in EventPayloads : DeliverReady("a", d)
    \/ GetStepSettle("a")
    \/ \E o \in CreateOutcomes : CreateStepsSettle("a", o)
    \/ \E ok \in BOOLEAN : GenerateSettle("a", ok)
    \/ \E o \in UpdateOutcomes : UpdateSettle("a", o)

SpecOrch == Init /\ [][NextOrch]_vars

\* one task of the workflow carried to its end: the event of each step of the
\* task is delivered once, when the step is Pending and its predecessor is
\* Completed, and every remote call answers successfully
InitPipeline ==
    /\ Init
    /\ variant # SingleStep

DeliverNext(i, id) ==
    /\ store[id].task_id = store[InitStepId].task_id
    /\ store[id].step_status = Pending
    /\ Ready(store, store[id])
    /\ inv[i].data # id
    /\ Handle(i, [valid |-> TRUE, step_id |-> id])

NextPipeline ==
    \/ \E id \in DOMAIN store : DeliverNext("a", id)
    \/ GetStepSettle("a")
    \/ CreateStepsSettle("a", "201")
    \/ GenerateSettle("a", TRUE)
    \/ UpdateSettle("a", "201")

SpecPipeline == InitPipeline /\ [][NextPipeline]_vars /\ WF_vars(NextPipeline)

\* ------------------------------------------------------------------------
\* Claims
\* ------------------------------------------------------------------------
AllAt(s, d) == \A i \in DOMAIN s : s[i].duration = d
InBand(sum, target) == sum >= target /\ sum <= target + Tolerance

C11_IdentityAndOrder ==
    pcAdj = "returned" =>
        /\ Len(scenes) = Len(scenesIn)
        /\ \A i \in DOMAIN scenes :
              /\ DOMAIN scenes[i] = DOMAIN scenesIn[i]
              /\ \A f \in DOMAIN scenes[i] \ {"duration"} : scenes[i][f] = scenesIn[i][f]

\* C11 witness: a call that has returned after changing some duration.
C11_Witness ==
    /\ pcAdj = "returned"
    /\ \E i \in DOMAIN scenesIn : scenes[i].duration # scenesIn[i].duration

\* C12: when the durations of the list sum exactly to the target,
\* adjustSceneDurations converts nothing, warns nothing and returns every
\* scene with the duration it had.
C12_ExactMatchUnchanged ==
    (pcAdj \in {"grow", "shrink", "returned"} /\ SumDurations(scenesIn) = targetDuration) =>
        /\ scenes = scenesIn
        /\ nGrow = 0 /\ nShrink = 0
        /\ warnings = <<>>

\* C12 witness: a call on a list mixing 5s and 10s whose sum is the target
\* has returned.
C12_Witness ==
    /\ pcAdj = "returned"
    /\ SumDurations(scenesIn) = targetDuration
    /\ Candidates(scenesIn, ShortDuration) # {}
    /\ Candidates(scenesIn, LongDuration) # {}

Slot == inv["a"]
HasStep(r) == r.fetched # NoStep
IsProcessSteps == variant \in {DurationWorkflow, SettingsWorkflow}
NonEmpty(v) == v.t = "str" /\ v.s # ""
\* every updateStep the invocation issued was answered 201 and applied
StoreAccepted(r) == Len(r.writes) = r.nUpdate
SuccessorsOf(j) == {id \in DOMAIN store : store[id].predecessor = j}

\* C1: if the Content Generator call made for a Pending step threw (and the
\* store accepted every update sent to it), then at the end of the
\* invocation the callback has returned normally and the step is stored
\* Failed with a non-empty output.
C1_FailureContainment ==
    (Ended(Slot) /\ Slot.genOutcome = "throw" /\ StoreAccepted(Slot)
       /\ Slot.fetched.step_status = Pending) =>
        /\ Slot.pc = "returned"
        /\ store[Slot.data].step_status = Failed
        /\ NonEmpty(store[Slot.data].output)

\* C2: an invocation that fetched a Pending step with a recognized name ends
\* with that step stored Completed or Failed, whatever the outcome of the
\* artifact parsing and of createSteps, content generation and updateStep.
C2_TerminalStatus ==
    (Ended(Slot) /\ HasStep(Slot) /\ IsProcessSteps
       /\ Slot.fetched.step_status = Pending
       /\ Slot.fetched.name \in RecognizedNames(variant)) =>
        store[Slot.data].step_status \in {Completed, Failed}

\* C3: the callback never throws; an event whose payload is not JSON or
\* whose step cannot be fetched ends with a normal return, an error logged
\* and no step record written.
C3_NeverThrows ==
    /\ Slot.pc # "threw"
    /\ (Ended(Slot) /\ ~HasStep(Slot)) =>
          /\ \E k \in DOMAIN Slot.logs : Slot.logs[k].level = "error"
          /\ Slot.nUpdate = 0 /\ Slot.nCreate = 0

\* C4: a processSteps invocation for a step whose name is not recognized
\* issues no createSteps and no updateStep, leaves the stored step as it was
\* fetched (still Pending if it was), and returns without throwing.
C4_UnknownIgnored ==
    (IsProcessSteps /\ HasStep(Slot)
       /\ Slot.fetched.name \notin RecognizedNames(variant)) =>
        /\ Slot.pc = "returned"
        /\ Slot.nCreate = 0 /\ Slot.nUpdate = 0 /\ Slot.nGen = 0
        /\ store[Slot.data] = Slot.fetched

\* C4 witness: processSteps has handled an event for the Pending step named
\* transformCharacters, which it does not recognize.
C4_Witness ==
    /\ IsProcessSteps /\ Ended(Slot) /\ HasStep(Slot)
    /\ Slot.fetched.name = "transformCharacters"
    /\ Slot.fetched.step_status = Pending

NoSideEffects(r) ==
    /\ r.nGen = 0 /\ r.nCreate = 0 /\ r.nUpdate = 0
    /\ store[r.data] = r.fetched

\* C5: in every dispatcher variant, a fetched step that is not
\* Pending is skipped with no Content Generator call, no createSteps, no
\* updateStep and the stored record unchanged.
C5_IdempotencyAllVariants ==
    (HasStep(Slot) /\ Slot.fetched.step_status # Pending) => NoSideEffects(Slot)

\* C6: in every reachable state of a processSteps deployment no step is the
\* predecessor of two steps, and once the init step is Completed exactly one
\* step has it as predecessor.
C6_SingleChain ==
    IsProcessSteps =>
        /\ \A j \in DOMAIN store : Cardinality(SuccessorsOf(j)) <= 1
        /\ store[InitStepId].step_status = Completed =>
              Cardinality(SuccessorsOf(InitStepId)) = 1

\* C7: an init invocation makes one createSteps call, whose steps are
\* generateScript, extractScenes, generateSettings, extractCharacters,
\* transformScenes in that order, the first with the init step as
\* predecessor and each later one with the step before it, all with the init
\* step's task_id, and is_last true for transformScenes only.
C7_InitChain ==
    (HasStep(Slot) /\ Slot.fetched.name = "init" /\ IsProcessSteps) =>
        LET st == Slot.newSteps IN
        /\ Slot.nCreate = 1
        /\ [k \in DOMAIN st |-> st[k].name] = PipelineNames
        /\ st[1].predecessor = Slot.fetched.step_id
        /\ \A k \in 2..Len(st) : st[k].predecessor = st[k - 1].step_id
        /\ \A k, l \in DOMAIN st : st[k].step_id = st[l].step_id => k = l
        /\ \A k \in DOMAIN st : st[k].step_id # Slot.fetched.step_id
        /\ \A k \in DOMAIN st : st[k].task_id = Slot.fetched.task_id
        /\ \A k \in DOMAIN st : st[k].is_last = (st[k].name = "transformScenes")

\* C7 witness: the init handler ran, createSteps answered 201 and the chain
\* is in the store.
C7_Witness ==
    /\ IsProcessSteps /\ Ended(Slot) /\ HasStep(Slot)
    /\ Slot.fetched.name = "init"
    /\ Slot.createStatus = "201"
    /\ \A k \in DOMAIN Slot.newSteps : Slot.newSteps[k].step_id \in DOMAIN store

\* C8: when createSteps answers a status other than 201, the init handler
\* logs an error-level message and still issues the update of the init step
\* to Completed, never to Failed.
C8_CreateFailureCompletesInit ==
    (Ended(Slot) /\ Slot.createStatus = "500") =>
        /\ \E k \in DOMAIN Slot.logs : Slot.logs[k].level = "error"
        /\ Slot.nUpdate = 1
        /\ Slot.upd.step_status = Completed

ContentHandlers == {PipelineNames[k] : k \in DOMAIN PipelineNames}

\* C9: an invocation of a content handler of the duration workflow for a
\* Pending step issues exactly one updateStep for the step, to Completed or
\* to Failed with output populated, and never a second one, whatever the
\* outcome of content generation and of the store call.
C9_ExactlyOneUpdate ==
    (variant = DurationWorkflow /\ HasStep(Slot)
       /\ Slot.fetched.name \in ContentHandlers
       /\ Slot.fetched.step_status = Pending) =>
        /\ Slot.nUpdate <= 1
        /\ Ended(Slot) =>
              /\ Slot.nUpdate = 1
              /\ Slot.upd.step_status \in {Completed, Failed}
              /\ Slot.upd.output # Undefined

\* the first element of the input artifact the invocation's step was fetched
\* with, and of the output artifact the invocation sent
InArt(r) == DestructureFirst(JSONparse(r.fetched.input_artifacts).val).val
OutArt(r) == Index0(r.upd.output_artifacts)
\* the invocation handled a step of that name and its one update, to
\* Completed, was accepted by the store
CompletedBy(r, name) ==
    /\ IsProcessSteps /\ HasStep(r) /\ r.pc = "returned"
    /\ r.fetched.name = name
    /\ r.upd.step_status = Completed
    /\ r.writes = <<Completed>>
Count(v) == IF v.t \in {"arr", "scenes"} THEN Len(v.e) ELSE -1

\* C15: when a transformScenes step whose input artifact holds a non-empty
\* scene list ends Completed, the output artifact holds as many transformed
\* scenes as the input artifact holds scenes.
C15_CardinalityPreserved ==
    (CompletedBy(Slot, "transformScenes") /\ Count(Get(InArt(Slot), "scenes")) > 0) =>
        Count(Get(OutArt(Slot), "transformedScenes")) = Count(Get(InArt(Slot), "scenes"))

\* C16: in the output artifact of a Completed transformScenes step every
\* name in a charactersInScene list is the name of a character of the
\* step's character list.
C16_NoDanglingCharacter ==
    CompletedBy(Slot, "transformScenes") =>
        LET ts == Get(OutArt(Slot), "transformedScenes")
            chars == Get(InArt(Slot), "characters")
            names == IF chars.t = "arr"
                     THEN {Get(chars.e[i], "name") : i \in DOMAIN chars.e} ELSE {}
        IN ts.t = "scenes" =>
             \A i \in DOMAIN ts.e :
               \A j \in DOMAIN ts.e[i].charactersInScene :
                 Str(ts.e[i].charactersInScene[j]) \in names

\* the artifact text holds an array whose first element carries every
\* required song metadata field
ValidMetadata(text) ==
    LET p == JSONparse(text)
    IN /\ p.ok
       /\ \A k \in RequiredMetadata : Truthy(Get(Index0(p.val), k))

\* C17: a generateScript invocation whose Pending step has an input artifact
\* that is absent, unparsable or lacks one of title, tags, lyrics, idea,
\* duration ends (the store accepting the update) with a normal return, no
\* Content Generator call, and the step stored Failed with a non-empty output.
C17_MetadataValidated ==
    (IsProcessSteps /\ Ended(Slot) /\ HasStep(Slot)
       /\ Slot.fetched.name = "generateScript"
       /\ Slot.fetched.step_status = Pending
       /\ StoreAccepted(Slot)
       /\ ~ValidMetadata(Slot.fetched.input_artifacts)) =>
        /\ Slot.pc = "returned"
        /\ Slot.nGen = 0
        /\ store[Slot.data].step_status = Failed
        /\ NonEmpty(store[Slot.data].output)

\* C18: an extractCharacters invocation whose Pending step has an input
\* artifact without a lyrics field ends (the store accepting the update)
\* with a normal return and the step stored Failed.
C18_MissingLyricsFails ==
    (IsProcessSteps /\ Ended(Slot) /\ HasStep(Slot)
       /\ Slot.fetched.name = "extractCharacters"
       /\ Slot.fetched.step_status = Pending
       /\ StoreAccepted(Slot)
       /\ InArt(Slot).t = "obj"
       /\ Get(InArt(Slot), "lyrics") = Undefined) =>
        /\ Slot.pc = "returned"
        /\ store[Slot.data].step_status = Failed

Earlier(name) ==
    CASE name = "generateSettings" -> {"script", "scenes"}
      [] name = "extractCharacters" -> {"script", "scenes", "settings"}
      [] name = "transformScenes" -> {"script", "scenes", "settings", "characters"}

\* C20: a generateSettings, extractCharacters or transformScenes step that
\* ends Completed emits the script, scenes, settings and characters it
\* received exactly as received; in the duration workflow the transformed
\* scenes differ from the prompts the Content Generator returned in their
\* durations only.
C20_EarlierArtifactsReadOnly ==
    \A name \in {"generateSettings", "extractCharacters", "transformScenes"} :
        CompletedBy(Slot, name) =>
            /\ \A k \in Earlier(name) :
                 /\ Get(InArt(Slot), k) # Undefined
                 /\ Get(OutArt(Slot), k) = Get(InArt(Slot), k)
            /\ (name = "transformScenes" /\ variant = DurationWorkflow) =>
                 LET ts == Get(OutArt(Slot), "transformedScenes")
                     g == Slot.genValue
                 IN /\ ts.t = "scenes" /\ g.t = "scenes"
                    /\ Len(ts.e) = Len(g.e)
                    /\ \A i \in DOMAIN g.e :
                         /\ DOMAIN ts.e[i] = DOMAIN g.e[i]
                         /\ \A f \in DOMAIN g.e[i] \ {"duration"} : ts.e[i][f] = g.e[i][f]

\* C20 witness: a transformScenes step of the duration workflow ended
\* Completed after the rebalancer changed a duration of the prompts.
C20_Witness ==
    /\ CompletedBy(Slot, "transformScenes")
    /\ variant = DurationWorkflow
    /\ Get(OutArt(Slot), "transformedScenes") # Slot.genValue
    /\ Get(OutArt(Slot), "scenes") \in GenResults("extractScenes")

\* C21: when an init invocation has marked its step Completed, the step's
\* output is the input_query it was fetched with, the one output artifact is
\* the value its input_artifacts parse to, and the artifact the created
\* generateScript step is handed reads the same title, tags, lyrics, idea
\* and duration as that value.
C21_InitForwards ==
    CompletedBy(Slot, "init") =>
        LET received == JSONparse(Slot.fetched.input_artifacts).val
        IN /\ store[Slot.data].output = Slot.fetched.input_query
           /\ Count(store[Slot.data].output_artifacts) = 1
           /\ Index0(store[Slot.data].output_artifacts) = received
           /\ \A k \in DOMAIN Slot.newSteps :
                LET id == Slot.newSteps[k].step_id
                IN (id \in DOMAIN store /\ store[id].name = "generateScript") =>
                     LET handed == DestructureFirst(JSONparse(store[id].input_artifacts).val).val
                     IN \A f \in RequiredMetadata : Get(handed, f) = Get(received, f)

\* C21 witness: init was Completed on a metadata object carrying all five
\* fields and the generateScript step it created holds the handed artifact.
C21_Witness ==
    /\ CompletedBy(Slot, "init")
    /\ Slot.createStatus = "201"
    /\ \A f \in RequiredMetadata :
         Get(JSONparse(Slot.fetched.input_artifacts).val, f) # Undefined
    /\ \E id \in SuccessorsOf(Slot.data) :
         /\ store[id].name = "generateScript"
         /\ store[id].input_artifacts # TextUndefined

\* C22: when the Content Generator returns, for a Pending transformScenes
\* step, a value that cannot be JSON-serialized, the invocation (the store
\* accepting the update) returns with the step stored Failed and no stored
\* output artifact holding that value.
C22_UnserializableFails ==
    (IsProcessSteps /\ Ended(Slot) /\ HasStep(Slot)
       /\ Slot.fetched.name = "transformScenes"
       /\ Slot.fetched.step_status = Pending
       /\ Slot.genValue = Cyclic
       /\ StoreAccepted(Slot)) =>
        /\ Slot.pc = "returned"
        /\ Slot.writes = <<Failed>>
        /\ store[Slot.data].step_status = Failed
        /\ Get(Index0(store[Slot.data].output_artifacts), "transformedScenes") # Cyclic

\* C22 witness: a transformScenes invocation of the settings workflow whose
\* generator call returned a cyclic value has ended with the step Failed.
C22_Witness ==
    /\ variant = SettingsWorkflow /\ Ended(Slot) /\ HasStep(Slot)
    /\ Slot.fetched.name = "transformScenes"
    /\ Slot.genValue = Cyclic
    /\ store[Slot.data].step_status = Failed

\* C23: every Failed record a processSteps handler sends is the fetched step
\* with status Failed and the handler's fixed output string, whatever error
\* made the handler fail (so two failing runs on the same step send the same
\* record), and while that update is awaited the message of the error that
\* was caught is in the invocation's log.
C23_ErrorDetailOnlyLogged ==
    (IsProcessSteps /\ HasStep(Slot) /\ Slot.upd # NoStep
       /\ Slot.upd.step_status = Failed) =>
        /\ Slot.upd = [Slot.fetched EXCEPT !.step_status = Failed,
                                           !.output = FailedOutput(Slot.fetched.name)]
        /\ \A e \in ErrorMessages : Slot.upd.output # Str(e)
        /\ Slot.pc = "updateStep" =>
              \E k \in DOMAIN Slot.logs :
                Slot.logs[k].level = "error" /\ Slot.logs[k].what = Slot.err

\* C23 witness: a handler whose Content Generator call was rejected with the
\* message "rate limit" has had its Failed record stored.
C23_Witness ==
    /\ IsProcessSteps /\ HasStep(Slot) /\ Ended(Slot)
    /\ Slot.genOutcome = "throw" /\ Slot.err = "rate limit"
    /\ Slot.writes = <<Failed>>
    /\ store[Slot.data].output = FailedOutput(Slot.fetched.name)

\* what a finished invocation did to the store: the steps it created, then
\* the update the store accepted
Effect(st, r) ==
    LET st1 == IF r.createStatus = "201" THEN StoreCreate(st, r.newSteps) ELSE st
    IN IF r.writes # <<>> THEN StoreUpdate(st1, r.upd) ELSE st1

\* the two finished invocations read and wrote as if i had run to its end
\* before j started
SerialOrder(i, j) ==
    LET s1 == Effect(store0, inv[i])
    IN /\ inv[i].data \in DOMAIN store0
       /\ inv[i].fetched = store0[inv[i].data]
       /\ inv[j].data \in DOMAIN s1
       /\ inv[j].fetched = s1[inv[j].data]
       /\ store = Effect(s1, inv[j])

\* C24: with two invocations interleaved, every updateStep an invocation
\* issues carries the step_id of its own event and of the step it fetched,
\* and when two invocations for different steps have both ended, the store
\* is the one that running them one after the other, in one of the two
\* orders, produces.
C24_IndependentInvocations ==
    /\ \A i \in Slots :
         inv[i].upd # NoStep =>
            /\ inv[i].upd.step_id = inv[i].data
            /\ inv[i].upd.step_id = inv[i].fetched.step_id
            /\ Len(inv[i].writes) <= 1
    /\ (/\ \A i \in Slots : Ended(inv[i]) /\ HasStep(inv[i])
        /\ inv["a"].data # inv["b"].data) =>
          SerialOrder("a", "b") \/ SerialOrder("b", "a")

\* C24 witness: two invocations have ended, one having Completed a step and
\* the other having written the step that follows it, which it had fetched
\* before the first one's output was handed over.
C24_Witness ==
    /\ \A i \in Slots : Ended(inv[i]) /\ HasStep(inv[i]) /\ inv[i].writes # <<>>
    /\ inv["b"].fetched.predecessor = inv["a"].data
    /\ inv["a"].writes = <<Completed>>
    /\ inv["b"].fetched.step_status = Pending
    /\ inv["b"].fetched.input_artifacts = TextUndefined
    /\ inv["a"].fetched.name \in ContentHandlers
\* the steps a step follows in its task: its predecessor, that step's
\* predecessor, and so on
RECURSIVE Ancestors(_, _)
Ancestors(st, id) ==
    LET p == st[id].predecessor
    IN IF p \in DOMAIN st THEN {p} \cup Ancestors(st, p) ELSE {}

StatusOf(id) == IF id \in DOMAIN store THEN store[id].step_status ELSE "absent"

FailedBefore(id) ==
    /\ id \in DOMAIN store
    /\ \E k \in Ancestors(store, id) : store[k].step_status = Failed

\* C25: with a step's event delivered only when its predecessor is stored
\* Completed, a stored Completed step always has a Completed predecessor,
\* and from a state where a step is Pending behind a Failed step of its task
\* onwards that step stays Pending.
C25_FailedStepHalts ==
    /\ [](\A id \in DOMAIN store :
            (store[id].step_status = Completed /\ store[id].predecessor \in DOMAIN store)
               => store[store[id].predecessor].step_status = Completed)
    /\ \A id \in 1..(FirstGenerated + 2 * Len(PipelineNames)) :
          []((FailedBefore(id) /\ StatusOf(id) = Pending) => [](StatusOf(id) = Pending))

\* transformScenes is stored Completed and the invocation that completed it
\* logged a task-level Completed status
TaskDone ==
    /\ \E id \in DOMAIN store :
          store[id].name = "transformScenes" /\ store[id].step_status = Completed
    /\ \E k \in DOMAIN Slot.logs : Slot.logs[k].task_status = Completed

InOrder ==
    \A id \in DOMAIN store :
       (store[id].step_status = Completed /\ store[id].predecessor \in DOMAIN store)
          => store[store[id].predecessor].step_status = Completed

WellFormedInput == store0[InitStepId].input_artifacts = TextOf(Obj(SongMetadata))
IllTypedPrompts ==
    /\ HasStep(Slot) /\ Slot.fetched.name = "transformScenes"
    /\ Slot.genOutcome = "ok" /\ Slot.genValue.t # "scenes"

BothReadPending ==
    /\ \A i \in Slots : HasStep(inv[i]) /\ inv[i].fetched.step_status = Pending
    /\ inv["a"].data = inv["b"].data

\* C27: no invocation rechecks the store before it writes: once the
\* generator call has returned, the invocation issues its updateStep
\* whatever the store then holds, and when two invocations for the same step
\* have both had a write accepted the stored record is the record one of
\* them sent (the later write replaced the earlier one whole).
C27_SameStepRace ==
    /\ \A i \in Slots :
          (HasStep(inv[i]) /\ inv[i].genOutcome = "ok") => inv[i].nUpdate >= 1
    /\ (/\ \A i \in Slots : HasStep(inv[i]) /\ Ended(inv[i]) /\ inv[i].writes # <<>>
        /\ inv["a"].data = inv["b"].data)
          => store[inv["a"].data] \in {inv["a"].upd, inv["b"].upd}

\* the race in a given dispatcher: both invocations read the step Pending,
\* both ran the handler and both writes were accepted
RaceIn(v) ==
    /\ variant = v
    /\ BothReadPending
    /\ \A i \in Slots : Ended(inv[i]) /\ inv[i].writes = <<Completed>>
    /\ store[inv["a"].data] \in {inv["a"].upd, inv["b"].upd}

\* C27 witness: the race in run, the dispatcher with the Pending check, each
\* invocation having called the Content Generator
C27_Witness ==
    /\ RaceIn(SingleStep)
    /\ \A i \in Slots : inv[i].nGen = 1

\* the race on init in processSteps: each invocation called createSteps and
\* two chains of successors exist
RaceOnInit(v) ==
    /\ RaceIn(v)
    /\ \A i \in Slots : inv[i].fetched.name = "init" /\ inv[i].nCreate = 1
                         /\ inv[i].createStatus = "201"
    /\ Cardinality(SuccessorsOf(inv["a"].data)) = 2

\* the race on a content step in processSteps: each invocation called the
\* Content Generator
RaceOnContent(v) ==
    /\ RaceIn(v)
    /\ \A i \in Slots : inv[i].fetched.name \in ContentHandlers /\ inv[i].nGen = 1

HandlesInit(r) == IsProcessSteps /\ HasStep(r) /\ r.fetched.name = "init"

\* C28: an invocation that handles init issues its updateStep only once
\* createSteps has answered; when createSteps answered 201 and the update
\* was accepted, every step of the submitted chain is in the store, linked
\* to its predecessor; and when createSteps threw, no update was issued and
\* the init record is as it was fetched.
C28_InitOrdering ==
    HandlesInit(Slot) =>
       /\ Slot.nUpdate >= 1 => Slot.createStatus \in {"201", "500"}
       /\ (Slot.createStatus = "201" /\ Slot.writes # <<>>) =>
             /\ store[Slot.data].step_status = Completed
             /\ \A k \in DOMAIN Slot.newSteps :
                   /\ Slot.newSteps[k].step_id \in DOMAIN store
                   /\ store[Slot.newSteps[k].step_id].predecessor =
                        Slot.newSteps[k].predecessor
                   /\ store[Slot.newSteps[k].step_id].name = PipelineNames[k]
       /\ Slot.createStatus = "throw" =>
             /\ Slot.pc = "threw"
             /\ Slot.nUpdate = 0
             /\ store[Slot.data] = Slot.fetched

\* C28 witness: a Pending init was handled, createSteps answered 201 and the
\* Completed update was accepted
C28_Witness ==
    /\ HandlesInit(Slot)
    /\ Slot.fetched.step_status = Pending
    /\ Slot.createStatus = "201"
    /\ Slot.writes = <<Completed>>
    /\ Len(Slot.newSteps) = Len(PipelineNames)

\* the duration in the artifact the task's init step received
InitDuration == Get(JSONparse(store[InitStepId].input_artifacts).val, "duration")

\* C29: in the duration workflow, a content step of the task that was
\* completed read from its input artifact the duration init received; the
\* four steps before transformScenes wrote it to their output artifact, and
\* the scenes transformScenes stored are a result of adjustSceneDurations
\* for that duration as target.
C29_DurationReachesRebalancer ==
    (/\ variant = DurationWorkflow
     /\ \E name \in ContentHandlers : CompletedBy(Slot, name)
     /\ Slot.fetched.task_id = store[InitStepId].task_id) =>
       /\ Get(InArt(Slot), "duration") = InitDuration
       /\ Slot.fetched.name # "transformScenes" =>
             Get(OutArt(Slot), "duration") = InitDuration
       /\ Slot.fetched.name = "transformScenes" =>
             /\ Slot.genValue.t = "scenes"
             /\ Get(OutArt(Slot), "transformedScenes").t = "scenes"
             /\ Get(OutArt(Slot), "transformedScenes").e \in
                   AdjustResults(Slot.genValue.e, InitDuration)

\* C29 witness: transformScenes completed with scenes whose durations were
\* changed to meet the duration of the init artifact
C29_Witness ==
    /\ variant = DurationWorkflow
    /\ CompletedBy(Slot, "transformScenes")
    /\ InitDuration = Num(15)
    /\ Get(OutArt(Slot), "transformedScenes").e # Slot.genValue.e

\* C30: when the extractCharacters handler has called the Content
\* Generator, the script it passed is the script of the step's input
\* artifact, and the lyrics and tags it passed are those of that artifact.
C30_CharactersFromScript ==
    (/\ IsProcessSteps /\ HasStep(Slot)
     /\ Slot.fetched.name = "extractCharacters"
     /\ Slot.nGen = 1) =>
       /\ Slot.genArgs["script"] = Get(InArt(Slot), "script")
       /\ Slot.genArgs["lyrics"] = Get(InArt(Slot), "lyrics")
       /\ Slot.genArgs["tags"] = Get(InArt(Slot), "tags")

\* ------------------------------------------------------------------------
\* Further claims about adjustSceneDurations
\* ------------------------------------------------------------------------
Started == pcAdj \in {"grow", "shrink", "returned"}
GrowDone == pcAdj \in {"shrink", "returned"}

DurationDomain == {ShortDuration, LongDuration}

\* C32: in every state of a call on scenes with durations 5 or 10, from the
\* call to the return, every scene of the list has duration 5 or 10.
C32_DomainPreserved ==
    (\A i \in DOMAIN scenesIn : scenesIn[i].duration \in DurationDomain) =>
       \A i \in DOMAIN scenes : scenes[i].duration \in DurationDomain

\* C32 witness: the call is inside the first loop after two conversions,
\* with a 5-second scene still in the list
C32_Witness ==
    /\ pcAdj = "grow"
    /\ nGrow = 2
    /\ Candidates(scenes, ShortDuration) # {}
    /\ Candidates(scenes, LongDuration) # {}

\* the two passes applied in the other order, second loop first: every list
\* that can result
ShrinkThenGrow(s, target) ==
    UNION {{g[1] : g \in GrowAll(x, SumDurations(x), target)} :
             x \in ShrinkAll(s, SumDurations(s), target)}

NumLong(s) == Cardinality(Candidates(s, LongDuration))

NumShort(s) == Cardinality(Candidates(s, ShortDuration))

\* C34: the list and warnings a call returned are one of the outcomes the
\* picks allow, and every outcome the picks allow on the same input and
\* target has the same sum, the same number of 5-second and of 10-second
\* scenes and the same warnings (compared for lists of up to MaxScenes
\* scenes).
C34_PicksChangeOnlyWhich ==
    (pcAdj = "returned" /\ Len(scenesIn) <= MaxScenes) =>
       /\ <<scenes, warnings>> \in AdjustOutcomes(scenesIn, targetDuration)
       /\ \A o \in AdjustOutcomes(scenesIn, targetDuration) :
             /\ SumDurations(o[1]) = SumDurations(scenes)
             /\ NumShort(o[1]) = NumShort(scenes)
             /\ NumLong(o[1]) = NumLong(scenes)
             /\ o[2] = warnings

\* C34 witness: a call has returned on an input for which the picks can lead
\* to more than one list
C34_Witness ==
    /\ pcAdj = "returned"
    /\ Len(scenesIn) <= MaxScenes
    /\ nGrow >= 1
    /\ Cardinality({o[1] : o \in AdjustOutcomes(scenesIn, targetDuration)}) > 1

C37_RunningSum ==
    Started => currentSum = SumDurations(scenes)

\* C37 witness: the call is at the head of the second loop after a 10-to-5
\* conversion, with the condition still true
C37_Witness ==
    /\ pcAdj = "shrink"
    /\ nShrink >= 1
    /\ ShrinkCond(currentSum, targetDuration)
    /\ currentSum = SumDurations(scenesIn) - DurationStep * nShrink

\* the invocation has issued an update that records a failure
FailureRecorded ==
    /\ IsProcessSteps /\ HasStep(Slot)
    /\ Slot.upd # NoStep
    /\ Slot.upd.step_status = Failed

\* C36: the record a handler sends to record a failure has the fields of
\* the record it fetched, with the same values except step_status, which is
\* Failed, and output, which is the handler's fixed message; the invocation
\* has called createSteps for nothing, and when the store accepts the record
\* it replaces the step's record and every other record stays as it was.
C36_FailureWritesStatusAndOutput ==
    /\ [](FailureRecorded =>
            /\ DOMAIN Slot.upd = DOMAIN Slot.fetched
            /\ \A f \in DOMAIN Slot.fetched \ {"step_status", "output"} :
                  Slot.upd[f] = Slot.fetched[f]
            /\ Slot.upd.output = FailedOutput(Slot.fetched.name)
            /\ Slot.nCreate = 0)
    /\ [][(/\ FailureRecorded
           /\ Slot.pc = "updateStep"
           /\ Len(inv'["a"].writes) > Len(Slot.writes)) =>
             store' = [store EXCEPT ![Slot.upd.step_id] = Slot.upd]]_vars

\* C36 witness: the store accepted the Failed record of an
\* extractCharacters step whose generator call was rejected, and the stored
\* record kept the input artifacts it was fetched with
C36_Witness ==
    /\ FailureRecorded
    /\ Slot.fetched.name = "extractCharacters"
    /\ Slot.fetched.step_status = Pending
    /\ Slot.genOutcome = "throw"
    /\ Slot.writes = <<Failed>>
    /\ Slot.fetched.input_artifacts # TextUndefined
    /\ store[Slot.data].input_artifacts = Slot.fetched.input_artifacts

====
